---- MODULE Spec2Model ----
(***************************************************************************)
(* State-machine model of trust.core: the certificate authority           *)
(* (models/CAModel.ts), its RPC plan (plans/CAPlan.ts), the               *)
(* Certificate <-> Verifiable Credential bridge (models/VCBridge.ts),     *)
(* the trust store (models/TrustModel.ts) and the audit and propagation   *)
(* services (services/AuditTrailService.ts, VCPropagationService.ts).     *)
(*                                                                         *)
(* Conventions.                                                            *)
(*  - A JavaScript string that the code builds or takes apart is a tuple  *)
(*    of tokens (`did:one:sha256:${h}` is <<"did:", "one:sha256:", h>>);  *)
(*    concatenation is \o.  Enumerations are plain TLA+ strings.          *)
(*  - An optional value is None (<<>>) or Some(v) (<<v>>).                *)
(*  - Time is in milliseconds relative to the start of the run; the       *)
(*    length of a day is scaled down to DayMs so that arithmetic stays    *)
(*    small.                                                              *)
(*  - Every async method is cut at its awaits that touch the store: the   *)
(*    read (getIdObject) and the write (storeVersionedObject) are         *)
(*    separate steps, other calls may run in between.                     *)
(***************************************************************************)
EXTENDS Integers, Sequences, FiniteSets, TLC

\* ------------------------------------------------------------------ bounds
MaxNow == 3        \* the clock stops here
DayMs == 2         \* 24 * 60 * 60 * 1000 ms, scaled
MaxIssued == 1     \* certificates issued in a run
MaxChained == 2    \* certificates issued in a run that chains certificates
MaxStored == 4     \* objects written to the stores in a run
MaxDocs == 1       \* exported JSON-LD documents kept out of band
MaxCalls == 2      \* lifecycle calls in flight at once
MaxLen == 3        \* tokens in a hash given to the DID converter
CacheLimit == 2    \* events the audit cache keeps (1000), scaled
MaxQueued == 2     \* queueForPropagation calls in a run
MaxLoops == 2      \* processPropagationQueue executions suspended at once
MaxTimers == 2     \* setInterval calls in a run
MaxFaults == 1     \* store operations that throw in a run

\* ------------------------------------------------------- program constants
DefaultValidityDays == 365
RootValidityDays == 3650

VARIABLES
    now,     \* Date.now()
    ca,      \* per instance: the fields of its CAModel object
    store,   \* per instance: oneCore's versioned objects, id -> versions in write order
    call,    \* lifecycle calls suspended between their read and their write
    docs,    \* JSON-LD documents exported and not yet discarded
    last,    \* the call that completed last, with what it read, wrote and returned
    events,  \* AuditTrailService.events, the cache that the queries read
    sync     \* the VCPropagationService object, its timers and its suspended loops

vars == <<now, ca, store, call, docs, last, events, sync>>

\* ----------------------------------------------------------------- values
None == <<>>
Some(v) == <<v>>
IsSome(o) == o # <<>>
Get(o) == o[1]

Undefined == <<"undefined">>

\* { ...g, ...f }: the properties of f, then those of g that f lacks
Merge(f, g) ==
    [k \in DOMAIN f \cup DOMAIN g |-> IF k \in DOMAIN f THEN f[k] ELSE g[k]]

Instances == {"A", "B"}
Callers == 1..MaxCalls

\* inputs of the operations
CertificateTypes == {"identity"}
Subjects == {<<"hS">>}
SubjectKeys == {<<"pkS">>}
ValidityDaysInputs == {0, 1}          \* 0 stands for "not given" as well (both falsy)
AdditionalDaysInputs == {0, 1}
ReduceOffsets == {-2, 1}              \* newValidUntil relative to the time of the call
ClaimsInputs == {None}
RevokeReasons == {<<"keyCompromise">>}   \* options.reason of revokeCertificate
RandTags == {1}
ChainDepthInputs == {None, Some(3)}   \* options.chainDepth: not given, or given

\* Keychain of instance i
KeychainIdHash(i) == <<i>>
KeychainPublicKey(i) == <<"pk", i>>

\* ------------------------------------------------------------ object store
\* oneCore.getIdObject(id): the versions stored under id, oldest first
\* (the callers take versions[versions.length - 1] as the latest).
GetIdObject(s, id) == IF id \in DOMAIN s THEN s[id] ELSE <<>>

\* oneCore.storeVersionedObject(obj): one more version under obj.id.
StoreVersionedObject(s, obj) ==
    IF obj.id \in DOMAIN s
    THEN [s EXCEPT ![obj.id] = Append(@, obj)]
    ELSE [id \in DOMAIN s \cup {obj.id} |-> IF id = obj.id THEN <<obj>> ELSE s[id]]

\* The hash storeVersionedObject returns: content addressed.
HashOf(obj) == [hash |-> obj]

\* oneCore.sign(hash)
Sign(signer, hash) == [signer |-> signer, signed |-> hash]

Latest(versions) == versions[Len(versions)]

\* ---------------------------------------------------------------- CAModel
\* generateSerialNumber without the counter
GenerateSerialNumberUncounted(t, counter, rnd) == <<t, 0, rnd>>

\* generateSerialNumber: `${timestamp}-${counter}-${random}`
GenerateSerialNumber(t, counter, rnd) == <<t, counter, rnd>>

RootId(instanceId) == <<"cert", "root", instanceId, <<>> >>
CertId(type, subject, serial) == <<"cert", type, subject, serial>>

RootClaims ==
    [name |-> <<"Local Root Certificate">>, canSign |-> <<"true">>,
     canIssue |-> <<"true">>, canRevoke |-> <<"true">>,
     purposes |-> <<"authentication", "signing", "encryption">>]

\* createRootCertificate: the object literal
RootCert(instanceId, publicKey, t, serial) ==
    [id |-> RootId(instanceId),
     certificateType |-> "identity",
     status |-> "valid",
     subject |-> instanceId,
     subjectPublicKey |-> publicKey,
     issuer |-> instanceId,
     issuerPublicKey |-> publicKey,
     validFrom |-> t,
     validUntil |-> t + RootValidityDays * DayMs,
     issuedBy |-> None,
     chainDepth |-> 0,
     claims |-> Some(RootClaims),
     issuedAt |-> t,
     serialNumber |-> serial,
     version |-> 1,
     signature |-> None]

\* issueCertificate: validityMs
ValidityMs(validityDays) ==
    (IF validityDays # 0 THEN validityDays ELSE DefaultValidityDays) * DayMs

\* issueCertificate: the object literal
IssuedCert(instanceId, publicKey, t, o, idSerial, serial) ==
    [id |-> CertId(o.certificateType, o.subject, idSerial),
     certificateType |-> o.certificateType,
     status |-> "valid",
     subject |-> o.subject,
     subjectPublicKey |-> o.subjectPublicKey,
     issuer |-> instanceId,
     issuerPublicKey |-> publicKey,
     validFrom |-> t,
     validUntil |-> t + ValidityMs(o.validityDays),
     issuedBy |-> o.issuedBy,
     chainDepth |-> IF IsSome(o.chainDepth) THEN Get(o.chainDepth) ELSE 1,
     claims |-> o.claims,
     issuedAt |-> t,
     serialNumber |-> serial,
     version |-> 1,
     signature |-> None]

\* extendCertificate with the version left as it was
ExtendedCertSameVersion(latestCert, additionalDays) ==
    [latestCert EXCEPT
        !.validUntil = latestCert.validUntil + additionalDays * DayMs]

\* extendCertificate counting from validFrom instead of validUntil
ExtendedCertFromValidFrom(latestCert, additionalDays) ==
    [latestCert EXCEPT
        !.validUntil = latestCert.validFrom + additionalDays * DayMs,
        !.version = latestCert.version + 1]

\* extendCertificate: extendedCert
ExtendedCert(latestCert, additionalDays) ==
    [latestCert EXCEPT
        !.validUntil = latestCert.validUntil + additionalDays * DayMs,
        !.version = latestCert.version + 1]

\* reduceCertificate rejecting only a later validUntil
ReduceRejectedIfLater(latestCert, newValidUntil) == newValidUntil > latestCert.validUntil

\* reduceCertificate: the guard
ReduceRejected(latestCert, newValidUntil) == newValidUntil >= latestCert.validUntil

\* reduceCertificate building its version from scratch instead of from ...latestCert
ReducedCertChainDropped(latestCert, newValidUntil) ==
    [latestCert EXCEPT
        !.validUntil = newValidUntil,
        !.version = latestCert.version + 1,
        !.claims = None]

\* reduceCertificate: reducedCert
ReducedCert(latestCert, newValidUntil) ==
    [latestCert EXCEPT
        !.validUntil = newValidUntil,
        !.version = latestCert.version + 1]

\* revokeCertificate that only moves validUntil into the past
RevokedCertStatusKept(latestCert, t) ==
    [latestCert EXCEPT
        !.validUntil = t - 1,
        !.version = latestCert.version + 1]

\* revokeCertificate: revokedCert
RevokedCert(latestCert, t) ==
    [latestCert EXCEPT
        !.status = "revoked",
        !.validUntil = t - 1,
        !.version = latestCert.version + 1]

\* verifyCertificate
VerifyCertificate(certificate, t) ==
    IF certificate.status = "revoked"
    THEN [valid |-> FALSE, reason |-> "Certificate is revoked"]
    ELSE IF certificate.status = "suspended"
    THEN [valid |-> FALSE, reason |-> "Certificate is suspended"]
    ELSE IF t < certificate.validFrom
    THEN [valid |-> FALSE, reason |-> "Certificate not yet valid"]
    ELSE IF t > certificate.validUntil
    THEN [valid |-> FALSE, reason |-> "Certificate has expired"]
    ELSE [valid |-> TRUE, reason |-> "none"]

\* getCertificate
GetCertificate(s, certificateId) ==
    IF GetIdObject(s, certificateId) = <<>>
    THEN None
    ELSE Some(Latest(GetIdObject(s, certificateId)))

\* getCertificateHistory
GetCertificateHistory(s, certificateId) == GetIdObject(s, certificateId)

\* ------------------------------------------------------------------- state
\* new VCPropagationService(oneCore). The Map propagationQueue is the sequence of
\* its entries in insertion order; an entry holds a reference into `records`, the
\* PropagationRecord objects created so far, and the stamp of its insertion, by
\* which a Map iterator finds the entry it visits next. `timers` are the intervals
\* setInterval has started and clearInterval has not stopped, `loops` the
\* processPropagationQueue executions suspended at an await, `written` the VCs
\* stored by propagateExternal, `faults` the store operations that have thrown;
\* `shut` holds from the return of shutdown to the next call of the service.
NewSync ==
    [propagationQueue |-> <<>>, records |-> <<>>, stamps |-> 0,
     isRunning |-> FALSE, syncInterval |-> None, timers |-> {}, handles |-> 0,
     loops |-> [l \in 1..MaxLoops |-> None], written |-> <<>>, faults |-> 0,
     shut |-> FALSE]

NewCA ==
    [instanceId |-> None, instancePublicKey |-> None,
     rootCertificate |-> None, serialNumberCounter |-> 0]

Init ==
    /\ now = 0
    /\ ca = [i \in Instances |-> NewCA]
    /\ store = [i \in Instances |-> <<>>]
    /\ call = [c \in Callers |-> None]
    /\ docs = {}
    /\ last = None
    /\ events = <<>>
    /\ sync = NewSync

Completed(op, i, id, arg, input, prev, new, before, result) ==
    Some([op |-> op, inst |-> i, id |-> id, arg |-> arg, input |-> input, at |-> now,
          prev |-> prev, new |-> new, before |-> before, result |-> result])

Stored ==
    LET RECURSIVE Count(_, _)
        Count(i, ids) ==
            IF ids = {} THEN 0
            ELSE LET id == CHOOSE x \in ids : TRUE
                 IN  Len(store[i][id]) + Count(i, ids \ {id})
        RECURSIVE Sum(_)
        Sum(is) ==
            IF is = {} THEN 0
            ELSE LET i == CHOOSE x \in is : TRUE
                 IN  Count(i, DOMAIN store[i]) + Sum(is \ {i})
    IN  Sum(Instances)

Issued == Cardinality({id \in UNION {DOMAIN store[i] : i \in Instances} : id[2] # "root"})

\* Date.now() advances
Tick ==
    /\ now < MaxNow
    /\ now' = now + 1
    /\ UNCHANGED <<events, sync, ca, store, call, docs, last>>

\* loadRootCertificate that never finds the stored root
LoadRootCertificateNever(s, instanceId) == None

\* loadRootCertificate: the latest stored version of cert:root:<instanceId>, if any
LoadRootCertificate(s, instanceId) ==
    IF GetIdObject(s, RootId(instanceId)) # <<>>
    THEN Some(Latest(GetIdObject(s, RootId(instanceId))))
    ELSE None

\* CAModel.init: keychain identity, loadRootCertificate, createRootCertificate
\* (a root is created when this.rootCertificate is still null after the load)
CAInit(i, rnd) ==
    LET instanceId == KeychainIdHash(i)
        publicKey == KeychainPublicKey(i)
        versions == GetIdObject(store[i], RootId(instanceId))
        loaded == LoadRootCertificate(store[i], instanceId)
        held == IF IsSome(loaded) THEN loaded ELSE ca[i].rootCertificate
        rootCert == RootCert(instanceId, publicKey, now,
                        GenerateSerialNumber(now, ca[i].serialNumberCounter, rnd))
    IN  /\ held = None => Stored < MaxStored
        /\ IF IsSome(held)
           THEN /\ ca' = [ca EXCEPT ![i].instanceId = Some(instanceId),
                                    ![i].instancePublicKey = Some(publicKey),
                                    ![i].rootCertificate = held]
                /\ UNCHANGED store
                /\ last' = Completed("init", i, RootId(instanceId), 0, None,
                                     held, None, versions, "loaded")
           ELSE /\ ca' = [ca EXCEPT ![i].instanceId = Some(instanceId),
                                    ![i].instancePublicKey = Some(publicKey),
                                    ![i].rootCertificate =
                                        Some([rootCert EXCEPT !.signature =
                                            Some(Sign(instanceId, HashOf(rootCert)))]),
                                    ![i].serialNumberCounter = @ + 1]
                /\ store' = [store EXCEPT ![i] = StoreVersionedObject(@, rootCert)]
                /\ last' = Completed("init", i, RootId(instanceId), 0, None,
                                     None, Some(rootCert), versions, "created")
        /\ UNCHANGED <<events, sync, now, call, docs>>

\* CAModel.shutdown
Shutdown(i) ==
    /\ ca[i].instanceId # None
    /\ ca' = [ca EXCEPT ![i].rootCertificate = None,
                        ![i].instanceId = None,
                        ![i].instancePublicKey = None]
    /\ last' = Completed("shutdown", i, <<>>, 0, None, None, None, <<>>, "ok")
    /\ UNCHANGED <<events, sync, now, store, call, docs>>

\* CAModel.issueCertificate
IssueCertificate(i, o, rnd1, rnd2) ==
    /\ Stored < MaxStored
    /\ IF ca[i].instanceId = None \/ ca[i].instancePublicKey = None
          \/ ca[i].rootCertificate = None
       THEN /\ last' = Completed("issue", i, <<>>, 0, Some(o), None, None, <<>>,
                                 "CA not initialized")
            /\ UNCHANGED <<ca, store>>
       ELSE LET n == ca[i].serialNumberCounter
                cert == IssuedCert(Get(ca[i].instanceId), Get(ca[i].instancePublicKey),
                            now, o,
                            GenerateSerialNumber(now, n, rnd1),
                            GenerateSerialNumber(now, n + 1, rnd2))
            IN  /\ ca' = [ca EXCEPT ![i].serialNumberCounter = n + 2]
                /\ store' = [store EXCEPT ![i] = StoreVersionedObject(@, cert)]
                /\ last' = Completed("issue", i, cert.id, 0, Some(o), None, Some(cert),
                                     GetIdObject(store[i], cert.id), "ok")
    /\ UNCHANGED <<events, sync, now, call, docs>>

IssueOptions ==
    [certificateType : CertificateTypes, subject : Subjects,
     subjectPublicKey : SubjectKeys, validityDays : ValidityDaysInputs,
     chainDepth : {None}, issuedBy : {None}, claims : ClaimsInputs]

\* every version object in the store of instance i
StoredObjects(i) ==
    UNION {{store[i][id][k] : k \in 1..Len(store[i][id])} : id \in DOMAIN store[i]}

\* a hash that no stored object has: that of the root of a CA whose certificates
\* never reach these stores
UnknownHash ==
    HashOf(RootCert(<<"X">>, <<"pk", "X">>, 0, GenerateSerialNumber(0, 0, 1)))

\* options.issuedBy: not given, the hash of a stored version, or an unknown hash
IssuedByInputs(i) ==
    {None, Some(UnknownHash)} \cup {Some(HashOf(c)) : c \in StoredObjects(i)}

\* issue options with the chain fields in use
ChainedIssueOptions(i) ==
    [certificateType : CertificateTypes, subject : Subjects,
     subjectPublicKey : SubjectKeys, validityDays : {1},
     chainDepth : ChainDepthInputs, issuedBy : IssuedByInputs(i),
     claims : ClaimsInputs]

\* extendCertificate / reduceCertificate / revokeCertificate up to
\* `await this.oneCore.getIdObject(certificateId)`: what the call holds from then on
CallRead(i, op, id, arg) ==
    [op |-> op, inst |-> i, id |-> id, arg |-> arg,
     versions |-> GetIdObject(store[i], id)]

\* the rest of a call k: build the new version, storeVersionedObject, sign, return
StoreNewVersion(k, new) ==
    /\ Stored < MaxStored
    /\ store' = [store EXCEPT ![k.inst] = StoreVersionedObject(@, new)]
    /\ last' = Completed(k.op, k.inst, k.id, k.arg, None, Some(Latest(k.versions)),
                         Some(new), GetIdObject(store[k.inst], k.id), "ok")

CompleteExtend(k) ==
    /\ k.op = "extend"
    /\ StoreNewVersion(k, ExtendedCert(Latest(k.versions), k.arg))

CompleteReduce(k) ==
    /\ k.op = "reduce"
    /\ IF ReduceRejected(Latest(k.versions), k.arg)
       THEN /\ last' = Completed("reduce", k.inst, k.id, k.arg, None,
                                 Some(Latest(k.versions)), None,
                                 GetIdObject(store[k.inst], k.id),
                                 "New validUntil must be earlier than current validUntil")
            /\ UNCHANGED store
       ELSE StoreNewVersion(k, ReducedCert(Latest(k.versions), k.arg))

CompleteRevoke(k) ==
    /\ k.op = "revoke"
    /\ StoreNewVersion(k, RevokedCert(Latest(k.versions), now))

Complete(k) == CompleteExtend(k) \/ CompleteReduce(k) \/ CompleteRevoke(k)

\* a lifecycle call that runs from its first line to its return with nothing in between
AwaitedCall(i, op, id, arg) ==
    /\ id \in DOMAIN store[i]
    /\ Complete(CallRead(i, op, id, arg))
    /\ UNCHANGED <<events, sync, now, ca, call, docs>>

\* a lifecycle call suspends at its read (callers take the lowest free slot) ...
BeginCall(c, i, op, id, arg) ==
    /\ call[c] = None
    /\ \A d \in Callers : d < c => call[d] # None
    /\ id \in DOMAIN store[i]
    /\ call' = [call EXCEPT ![c] = Some(CallRead(i, op, id, arg))]
    /\ UNCHANGED <<events, sync, now, ca, store, docs, last>>

\* ... and resumes
FinishCall(c) ==
    /\ call[c] # None
    /\ Complete(Get(call[c]))
    /\ call' = [call EXCEPT ![c] = None]
    /\ UNCHANGED <<events, sync, now, ca, docs>>

\* ---------------------------------------------------------------- VCBridge
StartsWith(str, prefix) ==
    Len(str) >= Len(prefix) /\ SubSeq(str, 1, Len(prefix)) = prefix

DIDPrefix == <<"did:", "one:sha256:">>

\* DIDConverter.hashToDID
HashToDID(hash) == DIDPrefix \o hash

\* the positions at which pat occurs in str
Occurrences(str, pat) ==
    {k \in 1..(Len(str) - Len(pat) + 1) : SubSeq(str, k, k + Len(pat) - 1) = pat}

\* str.replace(pat, by) with a string pattern: the first occurrence only
ReplaceFirst(str, pat, by) ==
    IF Occurrences(str, pat) = {}
    THEN str
    ELSE LET k == CHOOSE x \in Occurrences(str, pat) :
                      \A y \in Occurrences(str, pat) : x <= y
         IN  SubSeq(str, 1, k - 1) \o by \o SubSeq(str, k + Len(pat), Len(str))

RECURSIVE ReplaceEvery(_, _, _)
ReplaceEvery(str, pat, by) ==
    IF Occurrences(str, pat) = {}
    THEN str
    ELSE ReplaceEvery(ReplaceFirst(str, pat, by), pat, by)

\* didToHash removing every did:one:sha256: from the DID
DidToHashReplaceAll(did) ==
    IF ~StartsWith(did, DIDPrefix)
    THEN None
    ELSE Some(ReplaceEvery(did, DIDPrefix, <<>>))

\* DIDConverter.didToHash: null (None) unless the DID starts with did:one:sha256:
DidToHash(did) ==
    IF ~StartsWith(did, DIDPrefix)
    THEN None
    ELSE Some(ReplaceFirst(did, DIDPrefix, <<>>))

\* new Date(ms).toISOString() and new Date(iso).getTime()
ToISOString(ms) == <<"iso8601", ms>>
DateGetTime(iso) == iso[2]

\* ProofConverter.toW3CProof / fromW3CProof
ToW3CProof(signature, issuerDID, created) ==
    [type |-> "Ed25519Signature2020",
     created |-> ToISOString(created),
     proofPurpose |-> "assertionMethod",
     verificationMethod |-> issuerDID \o <<"#keys-1">>,
     proofValue |-> signature]

FromW3CProof(proof) ==
    IF proof.type # "Ed25519Signature2020" THEN None ELSE Some(proof.proofValue)

\* cert.claims?.name
ClaimsName(cert) ==
    IF IsSome(cert.claims) /\ "name" \in DOMAIN Get(cert.claims)
    THEN Get(cert.claims).name
    ELSE Undefined

\* VCBridge.certificateToVC
CertificateToVC(cert) ==
    LET issuerDID == HashToDID(cert.issuer)
        subjectDID == IF StartsWith(cert.subject, <<"did:">>)
                      THEN cert.subject
                      ELSE HashToDID(cert.subject)
        base == [id |-> subjectDID, publicKey |-> cert.subjectPublicKey]
    IN  [oneType |-> Some("VerifiableCredential"),
         context |-> <<"https://www.w3.org/2018/credentials/v1",
                       "https://w3id.org/security/suites/ed25519-2020/v1">>,
         id |-> <<"urn:one:cert:", cert.id>>,
         type |-> << <<"VerifiableCredential">>, <<cert.certificateType, "Certificate">> >>,
         issuer |-> [id |-> issuerDID, name |-> ClaimsName(cert)],
         issuanceDate |-> ToISOString(cert.issuedAt),
         expirationDate |-> ToISOString(cert.validUntil),
         credentialSubject |->
             IF IsSome(cert.claims) THEN Merge(Get(cert.claims), base) ELSE base,
         proof |-> IF IsSome(cert.signature)
                   THEN Some(ToW3CProof(Get(cert.signature), issuerDID, cert.issuedAt))
                   ELSE None,
         oneMetadata |-> Some([version |-> cert.version])]

\* JSON.stringify followed by JSON.parse on an object: properties whose value is
\* undefined are dropped
JsonObject(f) == [k \in {x \in DOMAIN f : f[x] # Undefined} |-> f[k]]

\* VCBridge.exportAsJsonLD: the VC without $type$ and _oneMetadata, as JSON text
ExportAsJsonLD(cert) ==
    LET vc == CertificateToVC(cert)
    IN  [context |-> vc.context,
         id |-> vc.id,
         type |-> vc.type,
         issuer |-> JsonObject(vc.issuer),
         issuanceDate |-> vc.issuanceDate,
         expirationDate |-> vc.expirationDate,
         credentialSubject |-> JsonObject(vc.credentialSubject),
         proof |-> vc.proof]

\* VCBridge.importFromJsonLD: JSON.parse plus $type$
ImportFromJsonLD(jsonLD) ==
    [oneType |-> Some("VerifiableCredential"),
     context |-> jsonLD.context,
     id |-> jsonLD.id,
     type |-> jsonLD.type,
     issuer |-> jsonLD.issuer,
     issuanceDate |-> jsonLD.issuanceDate,
     expirationDate |-> jsonLD.expirationDate,
     credentialSubject |-> jsonLD.credentialSubject,
     proof |-> jsonLD.proof,
     oneMetadata |-> None]

\* vc.type.find(t => t !== 'VerifiableCredential')?.replace('Certificate', '')
\*     .toLowerCase() || 'identity'
\* (every certificate type is one lower-case word, so toLowerCase keeps it)
CertTypeOf(types) ==
    LET others == SelectSeq(types, LAMBDA t : t # <<"VerifiableCredential">>)
        word == IF others = <<>> THEN <<>>
                ELSE SelectSeq(Head(others), LAMBDA x : x # "Certificate")
    IN  IF word = <<>> THEN "identity" ELSE word[1]

\* vc.id.replace('urn:one:cert:', '')
StripUrn(vcId) == IF vcId[1] = "urn:one:cert:" THEN vcId[2] ELSE vcId

\* o.k on a parsed object: undefined when the property is absent
Prop(o, k) == IF k \in DOMAIN o THEN o[k] ELSE Undefined

\* VCBridge.vcToCertificate: both DIDs are strings; didToHash(undefined) throws a
\* TypeError at did.startsWith
VcDIDsAreStrings(vc) ==
    /\ Prop(vc.issuer, "id") # Undefined
    /\ Prop(vc.credentialSubject, "id") # Undefined

\* VCBridge.vcToCertificate: the DIDs are usable
VcHasValidDIDs(vc) ==
    /\ VcDIDsAreStrings(vc)
    /\ IsSome(DidToHash(vc.issuer.id))
    /\ IsSome(DidToHash(vc.credentialSubject.id))
    /\ Get(DidToHash(vc.issuer.id)) # <<>>                \* !'' is true as well
    /\ Get(DidToHash(vc.credentialSubject.id)) # <<>>

\* VCBridge.vcToCertificate: the object literal
VcToCertificate(vc) ==
    [id |-> StripUrn(vc.id),
     certificateType |-> CertTypeOf(vc.type),
     status |-> "valid",
     subject |-> Get(DidToHash(vc.credentialSubject.id)),
     subjectPublicKey |-> Prop(vc.credentialSubject, "publicKey"),
     issuer |-> Get(DidToHash(vc.issuer.id)),
     issuerPublicKey |-> <<>>,
     validFrom |-> DateGetTime(vc.issuanceDate),
     validUntil |-> DateGetTime(vc.expirationDate),   \* every document carries one
     issuedBy |-> None,
     chainDepth |-> 1,
     claims |-> Some(Merge([id |-> Undefined, publicKey |-> Undefined],
                           vc.credentialSubject)),
     issuedAt |-> DateGetTime(vc.issuanceDate),
     serialNumber |-> vc.id,
     version |-> IF IsSome(vc.oneMetadata) /\ Get(vc.oneMetadata).version # 0
                 THEN Get(vc.oneMetadata).version
                 ELSE 1,
     signature |-> IF IsSome(vc.proof) THEN FromW3CProof(Get(vc.proof)) ELSE None]

\* ------------------------------------------------------------------ CAPlan
\* CAPlan.exportAsVC: the JSON-LD text leaves the instance
ExportAsVC(i, certificateId) ==
    /\ Cardinality(docs) < MaxDocs
    /\ IsSome(GetCertificate(store[i], certificateId))
    /\ docs' = docs \cup {ExportAsJsonLD(Get(GetCertificate(store[i], certificateId)))}
    /\ last' = Completed("export", i, certificateId, 0, None,
                         GetCertificate(store[i], certificateId), None,
                         GetIdObject(store[i], certificateId), "ok")
    /\ UNCHANGED <<events, sync, now, ca, store, call>>

\* CAPlan.importVC
ImportVC(i, jsonLD) ==
    LET vc == ImportFromJsonLD(jsonLD)
    IN  IF ~VcHasValidDIDs(vc)
        THEN /\ last' = Completed("import", i, <<>>, 0, Some(jsonLD), None, None, <<>>,
                                  IF VcDIDsAreStrings(vc)
                                  THEN "Invalid DID format in VC"
                                  ELSE "TypeError")
             /\ UNCHANGED <<events, sync, now, ca, store, call, docs>>
        ELSE LET certificate == VcToCertificate(vc)
             IN  /\ Stored < MaxStored
                 /\ store' = [store EXCEPT ![i] = StoreVersionedObject(@, certificate)]
                 /\ last' = Completed("import", i, certificate.id, 0, Some(jsonLD),
                                      GetCertificate(store[i], certificate.id),
                                      Some(certificate),
                                      GetIdObject(store[i], certificate.id), "imported")
                 /\ UNCHANGED <<events, sync, now, ca, call, docs>>

\* ---------------------------------------------------------- specifications
LifecycleInputs ==
    [op : {"extend"}, arg : AdditionalDaysInputs]
        \cup [op : {"reduce"}, arg : {now + off : off \in ReduceOffsets}]
        \cup [op : {"revoke"}, arg : RevokeReasons]

\* the calls that are let overlap: none of them can be rejected
ConcurrentInputs == {x \in LifecycleInputs : x.op # "reduce"}

\* init is called on an instance that is not initialised
CAOps(I) ==
    \/ Tick
    \/ \E i \in I, rnd \in RandTags : ca[i].instanceId = None /\ CAInit(i, rnd)
    \/ \E i \in I, o \in IssueOptions, r1 \in RandTags, r2 \in RandTags :
          Issued < MaxIssued /\ IssueCertificate(i, o, r1, r2)

Exchange ==
    \/ \E i \in Instances : \E id \in DOMAIN store[i] : ExportAsVC(i, id)
    \/ \E i \in Instances : \E d \in docs : ImportVC(i, d)

\* two instances exchanging VC documents out of band; each lifecycle call is
\* awaited before the next one starts
Next ==
    \/ CAOps(Instances)
    \/ \E i \in Instances : \E id \in DOMAIN store[i] : \E x \in LifecycleInputs :
          AwaitedCall(i, x.op, id, x.arg)
    \/ Exchange

Spec == Init /\ [][Next]_vars

\* one CA instance, one lifecycle call at a time, no VC exchange
SeqNext ==
    \/ Tick
    \/ \E rnd \in RandTags : CAInit("A", rnd)
    \/ \E o \in IssueOptions, r1 \in RandTags, r2 \in RandTags :
          Issued < MaxIssued /\ IssueCertificate("A", o, r1, r2)
    \/ Shutdown("A")
    \/ \E id \in DOMAIN store["A"] : \E x \in LifecycleInputs :
          AwaitedCall("A", x.op, id, x.arg)

SeqSpec == Init /\ [][SeqNext]_vars

\* the calls that end a parent's validity: revoke, and reduce to a past time
ChainLifecycleInputs ==
    {x \in LifecycleInputs : x.op = "revoke" \/ (x.op = "reduce" /\ x.arg < now)}

\* one CA instance issuing certificates chained to stored ones
IssueNext ==
    \/ Tick
    \/ \E rnd \in RandTags : ca["A"].instanceId = None /\ CAInit("A", rnd)
    \/ Shutdown("A")
    \/ \E o \in ChainedIssueOptions("A"), r1 \in RandTags, r2 \in RandTags :
          Issued < MaxChained /\ IssueCertificate("A", o, r1, r2)
    \/ \E id \in DOMAIN store["A"] : \E x \in ChainLifecycleInputs :
          AwaitedCall("A", x.op, id, x.arg)

IssueSpec == Init /\ [][IssueNext]_vars

\* -------------------------------------------------------------- TrustModel
\* Trust levels and confidences are counted in hundredths (0.9 is 90); the sums the
\* code forms are multiples of 0.1 that Math.min / Math.max clamp after every step.
TrustStatuses == {"trusted", "pending", "untrusted", "revoked"}
TrustContexts == {"general", "file-transfer", "communication"}

\* getKeyTrustInfo: no TrustedKeysManager injected, key trusted, key not trusted,
\* or the lookup throws
KeyTrustOutcomes == {"none", "trusted", "untrusted", "throws"}

Min(a, b) == IF a <= b THEN a ELSE b
Max(a, b) == IF a >= b THEN a ELSE b

\* confidence + by without the cap at 1.0
BoostUncapped(confidence, by) == confidence + by

\* Math.min(1.0, confidence + by) and Math.max(0, confidence - by)
Boost(confidence, by) == Min(100, confidence + by)
Reduce(confidence, by) == Max(0, confidence - by)

\* evaluateTrust: the switch on relationship.status
BaseTrust(status) ==
    CASE status = "trusted" -> [level |-> 90, confidence |-> 90]
      [] status = "pending" -> [level |-> 30, confidence |-> 40]
      [] status = "untrusted" -> [level |-> 10, confidence |-> 80]
      [] status = "revoked" -> [level |-> 0, confidence |-> 100]
      [] OTHER -> [level |-> 0, confidence |-> 50]

\* evaluateTrust after the lookup of the relationship
EvaluateTrustOn(relationship, keyTrust, t, context) ==
    IF relationship = None
    THEN [level |-> 0, confidence |-> 0, reason |-> "unknown", trustLevel |-> Undefined]
    ELSE LET rel == Get(relationship)
             base == BaseTrust(rel.status)
             c1 == IF keyTrust = "trusted" THEN Boost(base.confidence, 20)
                   ELSE IF keyTrust = "throws" THEN Reduce(base.confidence, 10)
                   ELSE base.confidence
             age == IF IsSome(rel.lastVerified)
                    THEN t - DateGetTime(Get(rel.lastVerified))
                    ELSE 0
             c2 == IF IsSome(rel.lastVerified) /\ age < 7 * DayMs THEN Boost(c1, 10)
                   ELSE IF IsSome(rel.lastVerified) /\ age > 30 * DayMs THEN Reduce(c1, 10)
                   ELSE c1
         IN  IF IsSome(rel.validUntil) /\ DateGetTime(Get(rel.validUntil)) < t
             THEN [level |-> 0, confidence |-> 100, reason |-> "expired",
                   trustLevel |-> Undefined]
             ELSE IF context = "file-transfer" /\ base.level < 70
             THEN [level |-> base.level, confidence |-> c2,
                   reason |-> "insufficient_trust_for_file_transfer",
                   trustLevel |-> Undefined]
             ELSE [level |-> base.level, confidence |-> c2, reason |-> rel.status,
                   trustLevel |-> rel.trustLevel]

\* setTrustStatus: trustRelationship
TrustRelationship(deviceId, publicKey, status, existing, t) ==
    [peer |-> deviceId,
     peerPublicKey |-> publicKey,
     status |-> status,
     trustLevel |-> Undefined,
     establishedAt |-> IF IsSome(existing) THEN Get(existing).establishedAt
                       ELSE ToISOString(t),
     lastVerified |-> Some(ToISOString(t)),
     validUntil |-> None]

\* the id hash under which one.core keeps the versions of a TrustRelationship
TrustId(peer) == <<"TrustRelationship", "peer", peer>>

\* getAllEntries(personId, 'TrustRelationship'): the reverse map by peer
GetAllEntries(s, personId) ==
    {HashOf(GetIdObject(s, TrustId(personId))[k]) :
        k \in 1..Len(GetIdObject(s, TrustId(personId)))}

\* getTrustRelationshipObject: undefined when the reverse map is empty, and
\* undefined after the "not fully implemented" warning otherwise
GetTrustRelationshipObject(s, personId) ==
    IF GetAllEntries(s, personId) = {}
    THEN None
    ELSE None

\* TrustModel.setTrustStatus
SetTrustStatus(deviceId, publicKey, status) ==
    LET existing == GetTrustRelationshipObject(store["A"], deviceId)
        trustRelationship == TrustRelationship(deviceId, publicKey, status, existing, now)
        versions == GetIdObject(store["A"], TrustId(deviceId))
    IN  /\ Stored < MaxStored
        /\ store' = [store EXCEPT !["A"] =
                        [id \in DOMAIN @ \cup {TrustId(deviceId)} |->
                            IF id = TrustId(deviceId)
                            THEN Append(versions, trustRelationship)
                            ELSE @[id]]]
        /\ last' = Completed("setTrustStatus", "A", TrustId(deviceId), 0,
                             Some(status), None, Some(trustRelationship), versions, "ok")
        /\ UNCHANGED <<events, sync, now, ca, call, docs>>

\* TrustModel.getTrustStatus: relationship?.status
GetTrustStatus(deviceId) ==
    LET relationship == GetTrustRelationshipObject(store["A"], deviceId)
    IN  /\ last' = Completed("getTrustStatus", "A", TrustId(deviceId), 0, None, None, None,
                             GetIdObject(store["A"], TrustId(deviceId)),
                             IF IsSome(relationship)
                             THEN Some(Get(relationship).status)
                             ELSE None)
        /\ UNCHANGED <<events, sync, now, ca, store, call, docs>>

\* TrustModel.evaluateTrust
EvaluateTrust(personId, keyTrust, context) ==
    LET relationship == GetTrustRelationshipObject(store["A"], personId)
    IN  /\ last' = Completed("evaluateTrust", "A", TrustId(personId), 0,
                             Some([relationship |-> relationship, keyTrust |-> keyTrust,
                                   context |-> context]),
                             None, None, GetIdObject(store["A"], TrustId(personId)),
                             EvaluateTrustOn(relationship, keyTrust, now, context))
        /\ UNCHANGED <<events, sync, now, ca, store, call, docs>>

\* the trust store of one instance
TrustNext ==
    \/ Tick
    \/ \E p \in Subjects, k \in SubjectKeys, st \in TrustStatuses :
          SetTrustStatus(p, k, st)
    \/ \E p \in Subjects : GetTrustStatus(p)
    \/ \E p \in Subjects, k \in KeyTrustOutcomes, c \in TrustContexts :
          EvaluateTrust(p, k, c)

TrustSpec == Init /\ [][TrustNext]_vars

\* ------------------------------------------- calls of the pure operations
\* the ages, in days, of lastVerified that the recency adjustment tells apart
VerifiedAgeInputs == {0, 7, 30, 31}

\* relationships as stored: any status, verified some days ago or never, without or
\* with an expiry one day before or after the start of the run
SampleRelationships ==
    {[TrustRelationship(<<"hS">>, <<"pkS">>, st, None, 0) EXCEPT
         !.lastVerified = lv, !.validUntil = vu] :
        st \in TrustStatuses,
        lv \in {None} \cup {Some(ToISOString(0 - a * DayMs)) : a \in VerifiedAgeInputs},
        vu \in {None, Some(ToISOString(0 - DayMs)), Some(ToISOString(MaxNow + DayMs))}}

\* TrustModel.evaluateTrust with the relationship r found by the lookup
ApplyEvaluateTrust(r, keyTrust, context) ==
    /\ last' = Completed("evaluateTrust", "A", <<>>, 0,
                         Some([relationship |-> r, keyTrust |-> keyTrust,
                               context |-> context]),
                         None, None, <<>>, EvaluateTrustOn(r, keyTrust, now, context))
    /\ UNCHANGED <<events, sync, now, ca, store, call, docs>>

\* {...rootCert, signature: signed}
SignedCopy(c, signer) == [c EXCEPT !.signature = Some(Sign(signer, HashOf(c)))]

SampleRoot ==
    RootCert(KeychainIdHash("A"), KeychainPublicKey("A"), 0, GenerateSerialNumber(0, 0, 1))

SampleOptions ==
    [certificateType : CertificateTypes, subject : Subjects,
     subjectPublicKey : SubjectKeys, validityDays : {1},
     chainDepth : ChainDepthInputs, issuedBy : {None, Some(HashOf(SampleRoot))},
     claims : {None, Some([role |-> <<"admin">>])}]

SampleIssued ==
    {IssuedCert(KeychainIdHash("A"), KeychainPublicKey("A"), 0, o,
                GenerateSerialNumber(0, 1, 1), GenerateSerialNumber(0, 2, 1)) :
        o \in SampleOptions}

\* certificates as the CA builds them, unsigned as stored, signed by their issuer as
\* held in memory, and carrying another party's signature
SampleCerts ==
    LET plain == {SampleRoot} \cup SampleIssued
                    \cup {RevokedCert(c, 1) : c \in SampleIssued}
    IN  plain \cup {SignedCopy(c, c.issuer) : c \in plain}
              \cup {SignedCopy(c, <<"X">>) : c \in plain}

ProofTypes == {"Ed25519Signature2020", "RsaSignature2018"}

\* VCs as received: those of the signed sample certificates, with either proof type
SampleVCs ==
    {[CertificateToVC(c) EXCEPT !.proof = Some([Get(@) EXCEPT !.type = t])] :
        c \in {x \in SampleCerts : IsSome(x.signature)}, t \in ProofTypes}

RECURSIVE SeqsUpTo(_, _)
SeqsUpTo(S, n) ==
    IF n = 0 THEN {<<>>}
    ELSE SeqsUpTo(S, n - 1) \cup
         {Append(q, x) : q \in {r \in SeqsUpTo(S, n - 1) : Len(r) = n - 1}, x \in S}

\* hashes, among them ones that contain the tokens of the DID prefix
SampleHashes == SeqsUpTo({"did:", "one:sha256:", "ab"}, MaxLen)
SampleDIDs == SeqsUpTo({"did:", "one:sha256:", "ab"}, MaxLen + 1)

\* CAModel.verifyCertificate(certificate)
ApplyVerifyCertificate(certificate) ==
    /\ last' = Completed("verify", "A", certificate.id, 0, Some(certificate), None, None,
                         <<>>, VerifyCertificate(certificate, now))
    /\ UNCHANGED <<events, sync, now, ca, store, call, docs>>

\* VCBridge.vcToCertificate(VCBridge.certificateToVC(cert))
ApplyRoundTrip(cert) ==
    /\ VcHasValidDIDs(CertificateToVC(cert))
    /\ last' = Completed("roundTrip", "A", cert.id, 0, Some(cert), None,
                         Some(VcToCertificate(CertificateToVC(cert))), <<>>, "ok")
    /\ UNCHANGED <<events, sync, now, ca, store, call, docs>>

\* VCBridge.vcToCertificate(vc)
ApplyVcToCertificate(vc) ==
    /\ last' = IF VcHasValidDIDs(vc)
               THEN Completed("vcToCertificate", "A", vc.id, 0, Some(vc), None,
                              Some(VcToCertificate(vc)), <<>>, "ok")
               ELSE Completed("vcToCertificate", "A", vc.id, 0, Some(vc), None, None,
                              <<>>, "Invalid DID format in VC")
    /\ UNCHANGED <<events, sync, now, ca, store, call, docs>>

\* DIDConverter.didToHash(DIDConverter.hashToDID(hash))
ApplyHashToDIDAndBack(hash) ==
    /\ last' = Completed("hashToDIDAndBack", "A", <<>>, 0, Some(hash), None,
                         DidToHash(HashToDID(hash)), <<>>, "ok")
    /\ UNCHANGED <<events, sync, now, ca, store, call, docs>>

\* DIDConverter.hashToDID(DIDConverter.didToHash(did)) where didToHash is not null
ApplyDidToHashAndBack(did) ==
    /\ last' = Completed("didToHashAndBack", "A", <<>>, 0, Some(did), None,
                         IF IsSome(DidToHash(did))
                         THEN Some(HashToDID(Get(DidToHash(did))))
                         ELSE None,
                         <<>>, "ok")
    /\ UNCHANGED <<events, sync, now, ca, store, call, docs>>

ApplyNext ==
    \/ Tick
    \/ \E c \in SampleCerts : ApplyVerifyCertificate(c)
    \/ \E c \in SampleCerts : ApplyRoundTrip(c)
    \/ \E vc \in SampleVCs : ApplyVcToCertificate(vc)
    \/ \E h \in SampleHashes : ApplyHashToDIDAndBack(h)
    \/ \E d \in SampleDIDs : ApplyDidToHashAndBack(d)
    \/ \E r \in {None} \cup {Some(x) : x \in SampleRelationships},
          k \in KeyTrustOutcomes, c \in TrustContexts : ApplyEvaluateTrust(r, k, c)

ApplySpec == Init /\ [][ApplyNext]_vars

\* --------------------------------------------------------- verify_chain
\* CAModel has no chain verification; the walk below follows the specified
\* operation: follow issuedBy links, verify every certificate on the way, require
\* chainDepth to go down by exactly 1 per link, end at a self-signed certificate.

\* the stored object with hash h, if any
LoadVersionedObject(i, h) ==
    IF \E c \in StoredObjects(i) : HashOf(c) = h
    THEN Some(CHOOSE c \in StoredObjects(i) : HashOf(c) = h)
    ELSE None

\* a walk that never moves on to the parent
ChainStuck(chain, parent) == chain

\* one more link followed
ChainAdvance(chain, parent) == Append(chain, parent)

\* verify_chain(cert) starts with the certificate itself
BeginVerifyChain(c, i, cert) ==
    /\ call[c] = None
    /\ \A d \in Callers : d < c => call[d] # None
    /\ call' = [call EXCEPT ![c] = Some([op |-> "verifyChain", inst |-> i,
                                         id |-> cert.id, chain |-> <<cert>>])]
    /\ UNCHANGED <<events, sync, now, ca, store, docs, last>>

\* the walk of call c returns
ChainReturns(c, result) ==
    /\ call' = [call EXCEPT ![c] = None]
    /\ last' = Completed("verifyChain", Get(call[c]).inst, Get(call[c]).id, 0, None,
                         None, None, Get(call[c]).chain, result)

\* one iteration: verify the current certificate, then end or load its parent
VerifyChainStep(c) ==
    /\ call[c] # None
    /\ Get(call[c]).op = "verifyChain"
    /\ LET w == Get(call[c])
           cur == Latest(w.chain)
           parent == IF IsSome(cur.issuedBy)
                     THEN LoadVersionedObject(w.inst, Get(cur.issuedBy))
                     ELSE None
       IN  IF ~VerifyCertificate(cur, now).valid
           THEN ChainReturns(c, VerifyCertificate(cur, now).reason)
           ELSE IF cur.issuedBy = None
           THEN ChainReturns(c, IF cur.issuer = cur.subject THEN "valid"
                                ELSE "ChainBroken")
           ELSE IF parent = None \/ Get(parent).chainDepth # cur.chainDepth - 1
           THEN ChainReturns(c, "ChainBroken")
           ELSE /\ call' = [call EXCEPT ![c] =
                               Some([w EXCEPT !.chain = ChainAdvance(@, Get(parent))])]
                /\ UNCHANGED last
    /\ UNCHANGED <<events, sync, now, ca, store, docs>>

\* one CA instance issuing chained certificates, revoking, and verifying chains
ChainNext ==
    \/ \E rnd \in RandTags : ca["A"].instanceId = None /\ CAInit("A", rnd)
    \/ \E o \in ChainedIssueOptions("A"), r1 \in RandTags, r2 \in RandTags :
          Issued < MaxChained /\ IssueCertificate("A", o, r1, r2)
    \/ \E id \in DOMAIN store["A"] : \E r \in RevokeReasons :
          AwaitedCall("A", "revoke", id, r)
    \/ \E c \in Callers : \E cert \in StoredObjects("A") : BeginVerifyChain(c, "A", cert)
    \/ \E c \in Callers : VerifyChainStep(c)

\* every walk that can take its next step eventually takes it
ChainSpec ==
    Init /\ [][ChainNext]_vars /\ \A c \in Callers : WF_vars(VerifyChainStep(c))

\* one CA instance, lifecycle calls interleaved at their awaits
ConcNext ==
    \/ CAOps({"A"})
    \/ \E c \in Callers : \E id \in DOMAIN store["A"] : \E x \in ConcurrentInputs :
          BeginCall(c, "A", x.op, id, x.arg)
    \/ \E c \in Callers : FinishCall(c)

ConcSpec == Init /\ [][ConcNext]_vars

\* ------------------------------------------------------- CAPlan: issuance
\* issueDeviceCertificate: options (permissions, trustReason and verificationMethod
\* are copied as given and stay undefined here)
DeviceTrustLevels == {None, Some("full")}

\* CAModel.issueDeviceCertificate: the object literal
DeviceCert(instanceId, publicKey, t, subject, subjectPublicKey, o, idSerial, serial) ==
    [id |-> CertId("device", subject, idSerial),
     certificateType |-> "device",
     status |-> "valid",
     subject |-> subject,
     subjectPublicKey |-> subjectPublicKey,
     issuer |-> instanceId,
     issuerPublicKey |-> publicKey,
     validFrom |-> t,
     validUntil |-> t + ValidityMs(o.validityDays),
     chainDepth |-> 1,
     trustLevel |-> IF IsSome(o.trustLevel) THEN Get(o.trustLevel) ELSE "limited",
     trustReason |-> None,
     verificationMethod |-> None,
     permissions |-> None,
     issuedAt |-> t,
     serialNumber |-> serial,
     version |-> 1,
     signature |-> None]

\* the ids the plan looks up after issuing: options.certificateType + ':' +
\* options.subject, and `cert:device:${request.subject}`
PlanLookupId(certificateType, subject) == <<certificateType, subject>>
PlanDeviceLookupId(subject) == <<"cert", "device", subject>>

\* { certificateHash, certificateId: certificate?.id || '' }
IssueResponse(hash, certificate) ==
    [certificateHash |-> hash,
     certificateId |-> IF IsSome(certificate) THEN Get(certificate).id ELSE <<>>]

\* CAPlan.issueCertificate: caModel.issueCertificate, then caModel.getCertificate
PlanIssueCertificate(i, request, rnd1, rnd2) ==
    /\ Stored < MaxStored
    /\ IF ca[i].instanceId = None \/ ca[i].instancePublicKey = None
          \/ ca[i].rootCertificate = None
       THEN /\ last' = Completed("planIssue", i, <<>>, 0, Some(request), None, None,
                                 <<>>, "CA not initialized")
            /\ UNCHANGED <<ca, store>>
       ELSE LET n == ca[i].serialNumberCounter
                cert == IssuedCert(Get(ca[i].instanceId), Get(ca[i].instancePublicKey),
                            now, request,
                            GenerateSerialNumber(now, n, rnd1),
                            GenerateSerialNumber(now, n + 1, rnd2))
                stored == StoreVersionedObject(store[i], cert)
                certificate == GetCertificate(stored,
                                   PlanLookupId(request.certificateType, request.subject))
            IN  /\ ca' = [ca EXCEPT ![i].serialNumberCounter = n + 2]
                /\ store' = [store EXCEPT ![i] = stored]
                /\ last' = Completed("planIssue", i, cert.id, 0, Some(request), None,
                                     Some(cert), GetIdObject(store[i], cert.id),
                                     IssueResponse(HashOf(cert), certificate))
    /\ UNCHANGED <<events, sync, now, call, docs>>

\* CAPlan.issueDeviceCertificate: caModel.issueDeviceCertificate, then
\* caModel.getCertificate
PlanIssueDeviceCertificate(i, request, rnd1, rnd2) ==
    /\ Stored < MaxStored
    /\ IF ca[i].instanceId = None \/ ca[i].instancePublicKey = None
       THEN /\ last' = Completed("planIssueDevice", i, <<>>, 0, Some(request), None,
                                 None, <<>>, "CA not initialized")
            /\ UNCHANGED <<ca, store>>
       ELSE LET n == ca[i].serialNumberCounter
                cert == DeviceCert(Get(ca[i].instanceId), Get(ca[i].instancePublicKey),
                            now, request.subject, request.subjectPublicKey, request,
                            GenerateSerialNumber(now, n, rnd1),
                            GenerateSerialNumber(now, n + 1, rnd2))
                stored == StoreVersionedObject(store[i], cert)
                certificate == GetCertificate(stored,
                                   PlanDeviceLookupId(request.subject))
            IN  /\ ca' = [ca EXCEPT ![i].serialNumberCounter = n + 2]
                /\ store' = [store EXCEPT ![i] = stored]
                /\ last' = Completed("planIssueDevice", i, cert.id, 0, Some(request),
                                     None, Some(cert), GetIdObject(store[i], cert.id),
                                     IssueResponse(HashOf(cert), certificate))
    /\ UNCHANGED <<events, sync, now, call, docs>>

IssueDeviceRequests ==
    [subject : Subjects, subjectPublicKey : SubjectKeys,
     validityDays : ValidityDaysInputs, trustLevel : DeviceTrustLevels]

\* one CA instance called through its plan
PlanNext ==
    \/ Tick
    \/ \E rnd \in RandTags : ca["A"].instanceId = None /\ CAInit("A", rnd)
    \/ Shutdown("A")
    \/ \E request \in IssueOptions, r1 \in RandTags, r2 \in RandTags :
          Issued < MaxChained /\ PlanIssueCertificate("A", request, r1, r2)
    \/ \E request \in IssueDeviceRequests, r1 \in RandTags, r2 \in RandTags :
          Issued < MaxChained /\ PlanIssueDeviceCertificate("A", request, r1, r2)

PlanSpec == Init /\ [][PlanNext]_vars

\* -------------------------------------------------------- AuditTrailService
\* An AuditEvent: timestamp, then the fields of the recorded request. The fields
\* certificateHash, certificateVersion, reason, metadata and error are carried
\* along untouched by every method and are left out.
AuditEventTypes == {"certificate_issued", "certificate_revoked"}
AuditActors == {<<"A">>}
AuditSubjects == {None, Some(<<"hS">>)}

RecordEventInputs ==
    [eventType : AuditEventTypes, actor : AuditActors, subject : AuditSubjects,
     certificateId : {None}, success : {TRUE}]

\* { $type$: 'AuditEvent', timestamp: Date.now(), ...event }
AuditEvent(event, t) ==
    [eventType |-> event.eventType, timestamp |-> t, actor |-> event.actor,
     subject |-> event.subject, certificateId |-> event.certificateId,
     success |-> event.success]

\* this.events.slice(-limit)
SliceLast(seq, limit) ==
    IF Len(seq) > limit THEN SubSeq(seq, Len(seq) - limit + 1, Len(seq)) ELSE seq

\* recordEvent: this.events.push(auditEvent), then the cut to the last CacheLimit
Pushed(cache, auditEvent) == SliceLast(Append(cache, auditEvent), CacheLimit)

\* AuditTrailService.recordEvent. storeUnversionedObject may throw; the error is
\* logged and the event is cached all the same, and no method reads the stored
\* events back (loadRecentEvents starts with an empty cache).
RecordEvent(event) ==
    LET auditEvent == AuditEvent(event, now)
    IN  /\ events' = Pushed(events, auditEvent)
        /\ last' = Completed("recordEvent", "A", <<>>, 0, Some(event), None,
                             Some(auditEvent), events, "ok")
        /\ UNCHANGED <<sync, now, ca, store, call, docs>>

\* `if (options.x)`: the filter is applied when x is given and is neither 0 nor ''
TruthyNumber(o) == IsSome(o) /\ Get(o) # 0
TruthyString(o) == IsSome(o) /\ Get(o) # <<>>

\* results.sort((a, b) => b.timestamp - a.timestamp): stable, newest first
RECURSIVE NewestFirst(_, _)
NewestFirst(seq, t) ==
    IF t < 0 THEN <<>>
    ELSE SelectSeq(seq, LAMBDA e : e.timestamp = t) \o NewestFirst(seq, t - 1)

\* results.slice(offset, offset + limit)
Slice(seq, from, to) ==
    IF from >= Len(seq) \/ to <= from THEN <<>>
    ELSE SubSeq(seq, from + 1, Min(to, Len(seq)))

\* queryEvents: filters, sort, pagination
QueryResults(cache, options) ==
    LET f1 == IF IsSome(options.eventType)
              THEN SelectSeq(cache, LAMBDA e : e.eventType \in Get(options.eventType))
              ELSE cache
        f2 == IF IsSome(options.actor)
              THEN SelectSeq(f1, LAMBDA e : e.actor = Get(options.actor))
              ELSE f1
        f3 == IF TruthyString(options.subject)
              THEN SelectSeq(f2, LAMBDA e : e.subject = options.subject)
              ELSE f2
        f4 == IF TruthyString(options.certificateId)
              THEN SelectSeq(f3, LAMBDA e : e.certificateId = options.certificateId)
              ELSE f3
        f5 == IF TruthyNumber(options.startTime)
              THEN SelectSeq(f4, LAMBDA e : e.timestamp >= Get(options.startTime))
              ELSE f4
        f6 == IF TruthyNumber(options.endTime)
              THEN SelectSeq(f5, LAMBDA e : e.timestamp <= Get(options.endTime))
              ELSE f5
        sorted == NewestFirst(f6, MaxNow)
        offset == IF TruthyNumber(options.offset) THEN Get(options.offset) ELSE 0
        limit == IF TruthyNumber(options.limit) THEN Get(options.limit) ELSE Len(sorted)
    IN  Slice(sorted, offset, offset + limit)

NoOptions ==
    [eventType |-> None, actor |-> None, subject |-> None, certificateId |-> None,
     startTime |-> None, endTime |-> None, limit |-> None, offset |-> None]

\* the options of the queries: no filter, one filter, or some filters together; a
\* type filter is a type or an array of types (a set, the empty array included), a
\* subject or certificate id any string ('' included), times and pages from 0 on
QueryOptions ==
    {NoOptions}
        \cup {[NoOptions EXCEPT !.eventType = Some(ts)] : ts \in SUBSET AuditEventTypes}
        \cup {[NoOptions EXCEPT !.actor = Some(a)] : a \in AuditActors \cup {<<"B">>}}
        \cup {[NoOptions EXCEPT !.subject = Some(u)] : u \in {<<"hS">>, <<>>}}
        \cup {[NoOptions EXCEPT !.certificateId = Some(c)] :
                 c \in {<<"cert", "x">>, <<>>}}
        \cup {[NoOptions EXCEPT !.startTime = Some(t)] : t \in {0, 1}}
        \cup {[NoOptions EXCEPT !.endTime = Some(t)] : t \in {0, 1}}
        \cup {[NoOptions EXCEPT !.startTime = Some(1), !.endTime = Some(2)]}
        \cup {[NoOptions EXCEPT !.eventType = Some({"certificate_issued"}),
                                !.subject = Some(<<"hS">>)]}
        \cup {[NoOptions EXCEPT !.limit = l, !.offset = o] :
                 l \in {None, Some(0), Some(1)}, o \in {None, Some(0), Some(1)}}

\* AuditTrailService.queryEvents
QueryEvents(options) ==
    /\ last' = Completed("queryEvents", "A", <<>>, 0, Some(options), None, None,
                         events, QueryResults(events, options))
    /\ UNCHANGED <<events, sync, now, ca, store, call, docs>>

\* daysToKeep: number = 90
PruneInputs == {None, Some(0), Some(1)}
DefaultDaysToKeep == 90

\* AuditTrailService.pruneOldEvents
PruneOldEvents(daysToKeep) ==
    LET days == IF IsSome(daysToKeep) THEN Get(daysToKeep) ELSE DefaultDaysToKeep
        cutoffTime == now - days * DayMs
    IN  /\ events' = SelectSeq(events, LAMBDA e : e.timestamp >= cutoffTime)
        /\ last' = Completed("pruneOldEvents", "A", <<>>, cutoffTime, Some(daysToKeep),
                             None, None, events, "ok")
        /\ UNCHANGED <<sync, now, ca, store, call, docs>>

\* the audit service under the calls of its plan
AuditNext ==
    \/ Tick
    \/ \E event \in RecordEventInputs : RecordEvent(event)
    \/ \E options \in QueryOptions : QueryEvents(options)
    \/ \E daysToKeep \in PruneInputs : PruneOldEvents(daysToKeep)

AuditSpec == Init /\ [][AuditNext]_vars

\* one CA instance and the audit service of the same application: lifecycle calls,
\* and events recorded by whoever calls the audit plan
LifecycleAuditNext ==
    \/ \E rnd \in RandTags : ca["A"].instanceId = None /\ CAInit("A", rnd)
    \/ \E o \in IssueOptions, r1 \in RandTags, r2 \in RandTags :
          Issued < MaxIssued /\ IssueCertificate("A", o, r1, r2)
    \/ \E id \in DOMAIN store["A"] : \E x \in LifecycleInputs :
          AwaitedCall("A", x.op, id, x.arg)
    \/ \E event \in RecordEventInputs : RecordEvent(event)

LifecycleAuditSpec == Init /\ [][LifecycleAuditNext]_vars

\* ----------------------------------------------------- VCPropagationService
\* queueForPropagation: record. internalError is never set (propagateInternal has
\* nothing that throws) and is left out.
PropagationRecord(certificateId, certificateHash, internalOnly, t) ==
    [certificateId |-> certificateId,
     certificateHash |-> certificateHash,
     internalStatus |-> "pending",
     externalStatus |-> IF internalOnly THEN "synced" ELSE "pending",
     externalUrl |-> None,
     internalSyncedAt |-> None,
     externalSyncedAt |-> None,
     externalError |-> None,
     createdAt |-> t,
     updatedAt |-> t]

\* Map.prototype.set: the value of an existing key is replaced in place, a new
\* key is appended
MapSet(sy, key, ref) ==
    IF \E k \in 1..Len(sy.propagationQueue) : sy.propagationQueue[k].certificateId = key
    THEN [sy EXCEPT !.propagationQueue =
             [k \in 1..Len(@) |-> IF @[k].certificateId = key
                                  THEN [@[k] EXCEPT !.record = ref]
                                  ELSE @[k]]]
    ELSE [sy EXCEPT !.propagationQueue =
                        Append(@, [certificateId |-> key, record |-> ref,
                                   stamp |-> sy.stamps + 1]),
                    !.stamps = @ + 1]

\* Map.prototype.delete
MapDelete(queue, key) == SelectSeq(queue, LAMBDA e : e.certificateId # key)

\* propagateInternal
PropagatedInternal(record, t) ==
    [record EXCEPT !.internalStatus = "synced", !.internalSyncedAt = Some(t),
                   !.updatedAt = t]

\* processPropagationQueue: "remove from queue if both propagations are complete"
RemoveIfComplete(sy, key, ref) ==
    IF sy.records[ref].internalStatus = "synced"
       /\ sy.records[ref].externalStatus = "synced"
    THEN [sy EXCEPT !.propagationQueue = MapDelete(@, key)]
    ELSE sy

\* processPropagationQueue, run l, from the entry after the one stamped `cursor` up
\* to its next await on the store (in propagateExternal) or to the end of the Map
RECURSIVE ProcessPropagationQueue(_, _, _, _)
ProcessPropagationQueue(sy, l, cursor, t) ==
    LET rest == SelectSeq(sy.propagationQueue, LAMBDA e : e.stamp > cursor)
    IN  IF rest = <<>>
        THEN [sy EXCEPT !.loops[l] = None]
        ELSE LET key == rest[1].certificateId
                 ref == rest[1].record
                 s1 == IF sy.records[ref].internalStatus = "pending"
                       THEN [sy EXCEPT !.records[ref] = PropagatedInternal(@, t)]
                       ELSE sy
             IN  IF s1.records[ref].externalStatus = "pending"
                 THEN [s1 EXCEPT !.records[ref].externalStatus = "syncing",
                                 !.records[ref].updatedAt = t,
                                 !.loops[l] = Some([cursor |-> rest[1].stamp,
                                                    certificateId |-> key,
                                                    record |-> ref,
                                                    at |-> "getObject",
                                                    vc |-> None])]
                 ELSE ProcessPropagationQueue(RemoveIfComplete(s1, key, ref), l,
                                              rest[1].stamp, t)

\* a processPropagationQueue execution can be started
FreeLoop(l) ==
    /\ l \in 1..MaxLoops
    /\ sync.loops[l] = None
    /\ \A m \in 1..MaxLoops : m < l => sync.loops[m] # None

\* VCPropagationService.init: loadPropagationState, startBackgroundSync
SyncInit ==
    /\ sync.handles < MaxTimers
    /\ sync' = [sync EXCEPT !.propagationQueue = <<>>,
                            !.isRunning = TRUE,
                            !.handles = @ + 1,
                            !.syncInterval = Some(sync.handles + 1),
                            !.timers = @ \cup {sync.handles + 1},
                            !.shut = FALSE]
    /\ last' = Completed("syncInit", "A", <<>>, 0, None, None, None, <<>>, "ok")
    /\ UNCHANGED <<events, now, ca, store, call, docs>>

\* VCPropagationService.queueForPropagation
QueueForPropagation(l, certificateId, certificateHash, internalOnly) ==
    LET record == PropagationRecord(certificateId, certificateHash, internalOnly, now)
        ref == Len(sync.records) + 1
        queued == MapSet([sync EXCEPT !.records = Append(@, record), !.shut = FALSE],
                         certificateId, ref)
    IN  /\ Len(sync.records) < MaxQueued
        /\ FreeLoop(l)
        /\ sync' = IF sync.isRunning
                   THEN ProcessPropagationQueue(queued, l, 0, now)
                   ELSE queued
        /\ last' = Completed("queueForPropagation", "A", certificateId, 0,
                             Some(certificateHash), None, None, <<>>, "ok")
        /\ UNCHANGED <<events, now, ca, store, call, docs>>

\* the callback of setInterval
BackgroundSync(l, handle) ==
    /\ handle \in sync.timers
    /\ FreeLoop(l)
    /\ sync' = ProcessPropagationQueue(sync, l, 0, now)
    /\ last' = Completed("backgroundSync", "A", <<>>, handle, None, None, None, <<>>,
                         "ok")
    /\ UNCHANGED <<events, now, ca, store, call, docs>>

\* propagateExternal: catch
ExternalFailed(sy, ref, t) ==
    [sy EXCEPT !.records[ref].externalStatus = "failed",
               !.records[ref].externalError = Some("Error"),
               !.records[ref].updatedAt = t]

\* oneCore.getObject(hash)
GetObject(hash) ==
    IF \E c \in StoredObjects("A") : HashOf(c) = hash
    THEN Some(CHOOSE c \in StoredObjects("A") : HashOf(c) = hash)
    ELSE None

\* propagateExternal resumes from `await this.oneCore.getObject(...)`: the object,
\* or an error thrown by the store
ExternalLoaded(l, throws) ==
    /\ sync.loops[l] # None
    /\ Get(sync.loops[l]).at = "getObject"
    /\ throws => sync.faults < MaxFaults
    /\ LET k == Get(sync.loops[l])
           certificate == GetObject(sync.records[k.record].certificateHash)
       IN  IF throws \/ certificate = None
           THEN /\ sync' = ProcessPropagationQueue(
                               [ExternalFailed(sync, k.record, now) EXCEPT
                                   !.faults = IF throws THEN @ + 1 ELSE @],
                               l, k.cursor, now)
                /\ last' = Completed("getObject", "A", k.certificateId, 0, None, None,
                                     None, <<>>, "failed")
           ELSE /\ sync' = [sync EXCEPT !.loops[l] =
                               Some([k EXCEPT !.at = "storeVersionedObject",
                                     !.vc = Some(CertificateToVC(Get(certificate)))])]
                /\ last' = Completed("getObject", "A", k.certificateId, 0, None, None,
                                     None, <<>>, "ok")
    /\ UNCHANGED <<events, now, ca, store, call, docs>>

\* propagateExternal resumes from `await this.oneCore.storeVersionedObject(vc)`
ExternalStored(l, throws) ==
    /\ sync.loops[l] # None
    /\ Get(sync.loops[l]).at = "storeVersionedObject"
    /\ throws => sync.faults < MaxFaults
    /\ LET k == Get(sync.loops[l])
       IN  IF throws
           THEN /\ sync' = ProcessPropagationQueue(
                               [ExternalFailed(sync, k.record, now) EXCEPT
                                   !.faults = @ + 1],
                               l, k.cursor, now)
                /\ last' = Completed("storeVersionedObject", "A", k.certificateId, 0,
                                     None, None, None, <<>>, "failed")
           ELSE /\ sync' = ProcessPropagationQueue(
                               RemoveIfComplete(
                                   [sync EXCEPT
                                       !.written = Append(@, Get(k.vc)),
                                       !.records[k.record].externalStatus = "synced",
                                       !.records[k.record].externalSyncedAt = Some(now),
                                       !.records[k.record].updatedAt = now],
                                   k.certificateId, k.record),
                               l, k.cursor, now)
                /\ last' = Completed("storeVersionedObject", "A", k.certificateId, 0,
                                     None, None, k.vc, <<>>, "synced")
    /\ UNCHANGED <<events, now, ca, store, call, docs>>

\* retryFailed: every failed status of a queued record back to pending
RetryMarked(sy) ==
    LET queuedRefs == {sy.propagationQueue[k].record :
                          k \in 1..Len(sy.propagationQueue)}
        Pending(st) == IF st = "failed" THEN "pending" ELSE st
    IN  [sy EXCEPT !.records =
            [ref \in 1..Len(@) |->
                IF ref \in queuedRefs
                THEN [@[ref] EXCEPT !.internalStatus = Pending(@),
                                    !.externalStatus = Pending(@)]
                ELSE @[ref]]]

\* VCPropagationService.retryFailed
RetryFailed(l) ==
    /\ FreeLoop(l)
    /\ sync' = ProcessPropagationQueue([RetryMarked(sync) EXCEPT !.shut = FALSE],
                                       l, 0, now)
    /\ last' = Completed("retryFailed", "A", <<>>, 0, None, None, None, <<>>, "ok")
    /\ UNCHANGED <<events, now, ca, store, call, docs>>

\* VCPropagationService.shutdown: stopBackgroundSync, savePropagationState, clear
SyncShutdown ==
    /\ sync' = [sync EXCEPT !.isRunning = FALSE,
                            !.timers = IF IsSome(sync.syncInterval)
                                       THEN @ \ {Get(sync.syncInterval)}
                                       ELSE @,
                            !.syncInterval = None,
                            !.propagationQueue = <<>>,
                            !.shut = TRUE]
    /\ last' = Completed("syncShutdown", "A", <<>>, 0, None, None, None, <<>>, "ok")
    /\ UNCHANGED <<events, now, ca, store, call, docs>>

\* what the callers hand to queueForPropagation: a stored version and its hash, or
\* a hash that the store does not hold
QueueInputs ==
    {[certificateId |-> c.id, certificateHash |-> HashOf(c)] : c \in StoredObjects("A")}
        \cup {[certificateId |-> id, certificateHash |-> UnknownHash] :
                 id \in DOMAIN store["A"]}

\* the steps of the loops that the runtime schedules by itself
Background(l) ==
    \/ \E handle \in 1..MaxTimers : BackgroundSync(l, handle)
    \/ \E throws \in BOOLEAN : ExternalLoaded(l, throws)
    \/ \E throws \in BOOLEAN : ExternalStored(l, throws)

\* one CA instance with the propagation service of the same application
SyncNext ==
    \/ \E rnd \in RandTags : ca["A"].instanceId = None /\ CAInit("A", rnd)
    \/ \E id \in DOMAIN store["A"] : \E reason \in RevokeReasons :
          AwaitedCall("A", "revoke", id, reason)
    \/ SyncInit
    \/ \E l \in 1..MaxLoops : \E q \in QueueInputs : \E internalOnly \in BOOLEAN :
          QueueForPropagation(l, q.certificateId, q.certificateHash, internalOnly)
    \/ \E l \in 1..MaxLoops : RetryFailed(l)
    \/ SyncShutdown
    \/ \E l \in 1..MaxLoops : Background(l)

\* timers fire and operations on the store return
SyncSpec ==
    Init /\ [][SyncNext]_vars /\ \A l \in 1..MaxLoops : WF_vars(Background(l))

\* ------------------------------------------------------------------ claims
Range(seq) == {seq[k] : k \in 1..Len(seq)}

LastIs(op) == IsSome(last) /\ Get(last).op = op
LastStored == IsSome(last) /\ IsSome(Get(last).new)
LastLifecycle == LastIs("extend") \/ LastIs("reduce") \/ LastIs("revoke")

\* what the store of the instance of the last call holds under the id of that call
LastVersions == GetIdObject(store[Get(last).inst], Get(last).id)

VersionsStrictlyIncreasing ==
    \A i \in Instances : \A id \in DOMAIN store[i] :
        \A k \in 1..(Len(store[i][id]) - 1) :
            store[i][id][k].version < store[i][id][k + 1].version

StoredVersionsKept ==
    \A i \in Instances : \A id \in DOMAIN store[i] :
        /\ id \in DOMAIN store'[i]
        /\ Len(store'[i][id]) >= Len(store[i][id])
        /\ SubSeq(store'[i][id], 1, Len(store[i][id])) = store[i][id]

NewVersionIsNext ==
    (LastLifecycle /\ LastStored) =>
        /\ Get(Get(last).new).version = Get(Get(last).prev).version + 1
        /\ LastVersions = Append(Get(last).before, Get(Get(last).new))

\* C1: under awaited issue / extend / reduce / revoke calls the versions stored under
\* an id have strictly increasing version numbers, every successful extend / reduce /
\* revoke stores exactly prev.version + 1, and no stored version is changed or removed.
C1_MonotoneVersioning ==
    /\ [](VersionsStrictlyIncreasing /\ NewVersionIsNext)
    /\ [][StoredVersionsKept]_vars

C1_Witness ==
    /\ LastIs("revoke")
    /\ Len(LastVersions) = 3
    /\ LastVersions[3].version = 3
    /\ LastVersions[2].validUntil > LastVersions[1].validUntil

\* C2: two versions stored under one id never carry the same version number, also
\* when extend / reduce / revoke calls on that id overlap.
C2_NoDuplicateVersion ==
    \A i \in Instances : \A id \in DOMAIN store[i] :
        \A j, k \in 1..Len(store[i][id]) :
            j # k => store[i][id][j].version # store[i][id][k].version

\* C3: the version getCertificate returns for an id never decreases, whatever
\* issue / extend / reduce / revoke / import is applied.
C3_ObservedVersionMonotone ==
    [][\A i \in Instances : \A id \in DOMAIN store[i] :
          Get(GetCertificate(store'[i], id)).version
              >= Get(GetCertificate(store[i], id)).version]_vars

RevokedResult == [valid |-> FALSE, reason |-> "Certificate is revoked"]

\* C4: the version a revoke stores has status revoked and validUntil < now, and from
\* then on verifyCertificate on the latest version of that id answers "revoked", also
\* after later awaited extend / reduce calls on the id.
C4_RevokedStaysRevoked ==
    /\ (LastIs("revoke") /\ LastStored) =>
          /\ Get(Get(last).new).status = "revoked"
          /\ Get(Get(last).new).validUntil < Get(last).at
          /\ Latest(LastVersions) = Get(Get(last).new)
    /\ \A i \in Instances : \A id \in DOMAIN store[i] :
          (\E c \in Range(store[i][id]) : c.status = "revoked") =>
              VerifyCertificate(Latest(store[i][id]), now) = RevokedResult

C4_Witness ==
    /\ LastIs("extend")
    /\ LastStored
    /\ Get(last).arg > 0
    /\ Get(Get(last).prev).status = "revoked"
    /\ Get(Get(last).new).validUntil > now

\* the certificate the last importVC call converted its document to
ImportedCert == VcToCertificate(ImportFromJsonLD(Get(Get(last).input)))

LastImportConverted ==
    LastIs("import") /\ VcHasValidDIDs(ImportFromJsonLD(Get(Get(last).input)))

ImportRejectedAsStale ==
    /\ Get(last).result = "StaleOrDuplicate"
    /\ LastVersions = Get(last).before

\* C5: the second import of one VC document is rejected as StaleOrDuplicate and
\* leaves the store as it was, with one stored version of that certificate.
C5_SecondImportRejected ==
    (LastImportConverted /\ ImportedCert \in Range(Get(last).before)) =>
        ImportRejectedAsStale

\* C6: importing a VC whose version is below the latest stored version of its id is
\* rejected as StaleOrDuplicate and stores nothing.
C6_OlderImportRejected ==
    (/\ LastImportConverted
     /\ Get(last).before # <<>>
     /\ ImportedCert.version < Latest(Get(last).before).version) =>
        ImportRejectedAsStale

\* C7: a certificate version exported as JSON-LD by one instance is stored by the
\* importing instance with the version number it had at the exporter.
C7_ImportKeepsVersion ==
    (LastImportConverted /\ LastStored) =>
        \A j \in Instances \ {Get(last).inst} :
            \A c \in Range(GetIdObject(store[j], Get(last).id)) :
                ExportAsJsonLD(c) = Get(Get(last).input) =>
                    Get(Get(last).new).version = c.version

\* C8: importVC stores nothing when the converted certificate fails verifyCertificate.
C8_ImportVerifiesFirst ==
    (LastImportConverted /\ ~VerifyCertificate(ImportedCert, Get(last).at).valid) =>
        /\ ~LastStored
        /\ LastVersions = Get(last).before

\* C9: a successful extend by d > 0 days stores validUntil = prev.validUntil + d,
\* prev being the latest version stored when the call was made.
C9_ExtendAddsDuration ==
    (LastIs("extend") /\ LastStored /\ Get(last).arg > 0) =>
        /\ Get(last).prev = Some(Latest(Get(last).before))
        /\ Get(Get(last).new).validUntil =
               Latest(Get(last).before).validUntil + Get(last).arg * DayMs

C9_Witness ==
    /\ LastIs("extend")
    /\ LastStored
    /\ Get(last).arg > 0
    /\ Len(Get(last).before) >= 2
    /\ Get(Get(last).new).validUntil # Get(Get(last).new).validFrom + Get(last).arg * DayMs

\* C10: after every successful extend by d > 0 the new validUntil lies after the
\* current time.
C10_ExtendedIsInFuture ==
    (LastIs("extend") /\ LastStored /\ Get(last).arg > 0) =>
        Get(Get(last).new).validUntil > Get(last).at

NotAReduction == "New validUntil must be earlier than current validUntil"

\* the last call was rejected and stored nothing
LastRejected ==
    /\ ~LastStored
    /\ Get(last).result # "ok"
    /\ LastVersions = Get(last).before

\* C11: extend with an additional duration <= 0 fails and stores no new version.
C11_ExtendRejectsNonPositive ==
    (LastIs("extend") /\ Get(last).arg <= 0) => LastRejected

\* C12: reduce to a time at or after the previous validUntil is rejected with the
\* "must be earlier" error and stores nothing: the latest version stays as it was.
C12_ReduceRejectsLater ==
    (LastIs("reduce") /\ Get(last).arg >= Latest(Get(last).before).validUntil) =>
        /\ LastRejected
        /\ Get(last).result = NotAReduction
        /\ Latest(LastVersions) = Latest(Get(last).before)

C12_Witness ==
    /\ LastIs("reduce")
    /\ Get(last).result = NotAReduction
    /\ Get(last).arg = Latest(Get(last).before).validUntil
    /\ Get(last).arg > Get(last).at

\* C13: reduce to a time at or before the current time is rejected and stores
\* nothing; no version stored by reduce has a validUntil that is not in the future.
C13_ReduceRejectsPast ==
    /\ (LastIs("reduce") /\ Get(last).arg <= Get(last).at) => LastRejected
    /\ (LastIs("reduce") /\ LastStored) =>
           Get(Get(last).new).validUntil > Get(last).at

\* C14: the version stored by revoke(c, r) carries reason = r.
C14_RevokeRecordsReason ==
    (LastIs("revoke") /\ LastStored) =>
        Prop(Get(Get(last).new), "reason") = Get(last).arg

\* C15: the version stored by extend / reduce / revoke equals the previous latest
\* version in every field but version and validUntil, and status for revoke.
C15_LifecycleFrame ==
    (LastLifecycle /\ LastStored) =>
        LET prev == Latest(Get(last).before)
            new == Get(Get(last).new)
        IN  /\ DOMAIN new = DOMAIN prev
            /\ \A f \in DOMAIN prev \ {"version", "validUntil", "status"} :
                   new[f] = prev[f]
            /\ ~LastIs("revoke") => new.status = prev.status

C15_Witness ==
    /\ LastIs("reduce")
    /\ LastStored
    /\ IsSome(Get(Get(last).new).claims)
    /\ Get(Get(last).new).validUntil < Get(Get(last).prev).validUntil

\* the CA of instance i is ready: identity and root certificate are held
CAReady(i) ==
    /\ IsSome(ca[i].instanceId)
    /\ IsSome(ca[i].instancePublicKey)
    /\ IsSome(ca[i].rootCertificate)

\* C16: issue / extend / reduce / revoke called while the CA is not ready (before
\* init, after shutdown) are rejected and write nothing to the store.
C16_NotReadyRejected ==
    ((LastIs("issue") \/ LastLifecycle) /\ ~CAReady(Get(last).inst)) => LastRejected

RootVersions(i) == GetIdObject(store[i], RootId(KeychainIdHash(i)))

\* C17: init creates a root only when the store holds none under the root id of the
\* instance; when one is stored, init holds its latest version and stores nothing;
\* so the store never holds two created (version 1) roots for one instance.
C17_SingleRoot ==
    /\ \A i \in Instances :
          Cardinality({k \in 1..Len(RootVersions(i)) : RootVersions(i)[k].version = 1}) <= 1
    /\ LastIs("init") =>
          IF Get(last).before = <<>>
          THEN /\ Get(last).result = "created"
               /\ LastVersions = <<Get(Get(last).new)>>
          ELSE /\ Get(last).result = "loaded"
               /\ ~LastStored
               /\ LastVersions = Get(last).before
               /\ ca[Get(last).inst].rootCertificate = Some(Latest(Get(last).before))

C17_Witness ==
    /\ LastIs("init")
    /\ Get(last).result = "loaded"
    /\ Len(Get(last).before) >= 2
    /\ ca[Get(last).inst].rootCertificate = Some(Latest(LastVersions))

\* the stored versions that the hash h names
ParentObjects(i, h) == {c \in StoredObjects(i) : HashOf(c) = h}

\* C18: an issued certificate has chainDepth 1 when no parent is given and the
\* parent's chainDepth + 1 when it is chained to a stored parent.
C18_ChainDepthFollowsParent ==
    (LastIs("issue") /\ LastStored) =>
        LET new == Get(Get(last).new)
        IN  /\ new.issuedBy = None => new.chainDepth = 1
            /\ IsSome(new.issuedBy) =>
                   \A p \in ParentObjects(Get(last).inst, Get(new.issuedBy)) :
                       new.chainDepth = p.chainDepth + 1

\* the parent named by h is stored, its latest version is valid at time t, and it
\* certifies the issuer
ParentUsable(i, h, t, issuer) ==
    \E p \in ParentObjects(i, h) :
        /\ VerifyCertificate(Latest(GetIdObject(store[i], p.id)), t).valid
        /\ p.subject = issuer

\* C19: issuing with issuedBy naming a missing, revoked or expired parent, or one
\* that does not certify the issuer, fails and stores no certificate.
C19_ParentChecked ==
    (/\ LastIs("issue")
     /\ IsSome(Get(Get(last).input).issuedBy)
     /\ ~ParentUsable(Get(last).inst, Get(Get(Get(last).input).issuedBy),
                      Get(last).at, KeychainIdHash(Get(last).inst))) =>
        LastRejected

\* C20: two stored certificates with distinct ids never share (issuer, serialNumber),
\* over any run of init, shutdown, issue and lifecycle calls.
C20_SerialUnique ==
    \A i \in Instances : \A c, d \in StoredObjects(i) :
        (c.issuer = d.issuer /\ c.serialNumber = d.serialNumber) => c.id = d.id

C20_Witness ==
    /\ LastIs("issue")
    /\ LastStored
    /\ Get(ca["A"].rootCertificate).signature = None
    /\ \E c, d \in StoredObjects("A") :
          /\ c.id # d.id
          /\ c.id[2] # "root"
          /\ d.id[2] # "root"
          /\ c.issuer = d.issuer
          /\ c.serialNumber[1] = d.serialNumber[1]
          /\ c.serialNumber[3] = d.serialNumber[3]

\* the signature of c is the issuer's signature over c without its signature field
SignatureVerifies(c) ==
    /\ IsSome(c.signature)
    /\ Get(c.signature) = Sign(c.issuer, HashOf([c EXCEPT !.signature = None]))

\* C21: every certificate version in the store carries a signature that verifies
\* against the issuer over the content of that version without the signature.
C21_StoredVersionsSigned ==
    \A i \in Instances : \A c \in StoredObjects(i) : SignatureVerifies(c)

\* C22: verifyCertificate answers valid only when the status is neither revoked nor
\* suspended, validFrom <= now <= validUntil, and the signature verifies against the
\* issuer.
C22_ValidOnlyIfSignatureVerifies ==
    (LastIs("verify") /\ Get(last).result.valid) =>
        LET certificate == Get(Get(last).input)
        IN  /\ certificate.status \notin {"revoked", "suspended"}
            /\ certificate.validFrom <= Get(last).at
            /\ Get(last).at <= certificate.validUntil
            /\ SignatureVerifies(certificate)

RoundTripFields ==
    {"id", "certificateType", "subject", "subjectPublicKey", "issuer", "validFrom",
     "validUntil", "issuedBy", "chainDepth", "claims", "issuedAt", "serialNumber",
     "version", "signature"}

\* C25: vcToCertificate(certificateToVC(c)) equals c on every field except
\* issuerPublicKey and status.
C25_RoundTripPreserves ==
    LastIs("roundTrip") =>
        \A f \in RoundTripFields : Get(Get(last).new)[f] = Get(Get(last).input)[f]

\* C26: didToHash(hashToDID(h)) = h for every hash h, and
\* hashToDID(didToHash(d)) = d for every DID d that starts with did:one:sha256:.
C26_DIDRoundTrip ==
    /\ LastIs("hashToDIDAndBack") => Get(last).new = Get(last).input
    /\ (LastIs("didToHashAndBack") /\ StartsWith(Get(Get(last).input), DIDPrefix)) =>
           Get(last).new = Get(last).input

C26_Witness ==
    /\ LastIs("didToHashAndBack")
    /\ Get(last).new = Get(last).input
    /\ Occurrences(Get(Get(last).input), DIDPrefix) = {1, 3}

\* C27: vcToCertificate fails for a VC whose proof is of another type than
\* Ed25519Signature2020, and returns no certificate for it.
C27_UnsupportedProofRejected ==
    (/\ LastIs("vcToCertificate")
     /\ IsSome(Get(Get(last).input).proof)
     /\ Get(Get(Get(last).input).proof).type # "Ed25519Signature2020") =>
        /\ Get(last).new = None
        /\ Get(last).result # "ok"

\* C28: evaluateTrust returns a level and a confidence within [0, 1] for every
\* relationship status, outcome of the key lookup, age of lastVerified and context.
C28_EvaluationInBounds ==
    LastIs("evaluateTrust") =>
        /\ 0 <= Get(last).result.level /\ Get(last).result.level <= 100
        /\ 0 <= Get(last).result.confidence /\ Get(last).result.confidence <= 100

C28_Witness ==
    /\ LastIs("evaluateTrust")
    /\ IsSome(Get(Get(last).input).relationship)
    /\ Get(Get(Get(last).input).relationship).status = "trusted"
    /\ Get(Get(last).input).keyTrust = "trusted"
    /\ Get(last).result.reason = "trusted"
    /\ Get(last).result.confidence = 100

\* the base values by status: level and confidence, in hundredths
BaseBySpec ==
    [trusted |-> [level |-> 90, confidence |-> 50],
     pending |-> [level |-> 30, confidence |-> 50],
     untrusted |-> [level |-> 10, confidence |-> 80],
     revoked |-> [level |-> 0, confidence |-> 100]]

\* C29: with no certificate and no recency adjustment, evaluateTrust returns by
\* status: trusted 0.9 / 0.5, pending 0.3 / 0.5, untrusted 0.1 / 0.8, revoked 0 / 1.0.
C29_BaseValuesByStatus ==
    (/\ LastIs("evaluateTrust")
     /\ IsSome(Get(Get(last).input).relationship)
     /\ Get(Get(last).input).keyTrust = "none"
     /\ Get(Get(Get(last).input).relationship).lastVerified = None
     /\ Get(Get(Get(last).input).relationship).validUntil = None) =>
        LET spec == BaseBySpec[Get(Get(Get(last).input).relationship).status]
        IN  /\ Get(last).result.level = spec.level
            /\ Get(last).result.confidence = spec.confidence

\* C30: once setTrustStatus(peer, key, s) has completed, getTrustStatus(peer) returns
\* s and evaluateTrust(peer) evaluates a relationship of status s, until the next
\* setTrustStatus for that peer.
C30_TrustStoreReadsBack ==
    /\ (LastIs("getTrustStatus") /\ Get(last).before # <<>>) =>
           Get(last).result = Some(Latest(Get(last).before).status)
    /\ (LastIs("evaluateTrust") /\ Get(last).before # <<>>) =>
           /\ IsSome(Get(Get(last).input).relationship)
           /\ Get(Get(Get(last).input).relationship).status =
                  Latest(Get(last).before).status

\* C24: getCertificate returns the stored version of the id with the highest version
\* number, and getCertificateHistory lists the stored versions of the id in
\* increasing version order, imports included.
C24_LatestAndHistoryOrdered ==
    \A i \in Instances : \A id \in DOMAIN store[i] :
        LET history == GetCertificateHistory(store[i], id)
        IN  /\ \A k \in 1..Len(history) :
                   Get(GetCertificate(store[i], id)).version >= history[k].version
            /\ \A k \in 1..(Len(history) - 1) :
                   history[k].version < history[k + 1].version

C31_EstablishedAtKept ==
    /\ \A id \in DOMAIN store["A"] :
           id[1] = "TrustRelationship" =>
               \A k \in 1..Len(store["A"][id]) :
                   store["A"][id][k].establishedAt = store["A"][id][1].establishedAt
    /\ LastIs("setTrustStatus") =>
           Get(Get(last).new).lastVerified = Some(ToISOString(Get(last).at))

\* the audit event type of a lifecycle operation
EventTypeOf(op) ==
    CASE op = "issue" -> "certificate_issued"
      [] op = "extend" -> "certificate_extended"
      [] op = "reduce" -> "certificate_reduced"
      [] op = "revoke" -> "certificate_revoked"

\* C32: when a lifecycle operation (issue, extend, reduce, revoke) has returned,
\* succeeded or failed, the newest audit event is the one of this operation: its
\* eventType is that of the operation, its success flag is the outcome.
C32_LifecycleAudited ==
    (IsSome(last) /\ Get(last).op \in {"issue", "extend", "reduce", "revoke"}) =>
        /\ events # <<>>
        /\ Latest(events).eventType = EventTypeOf(Get(last).op)
        /\ Latest(events).timestamp = Get(last).at
        /\ Latest(events).success = (Get(last).result = "ok")

\* an event matches every filter that the options give
MatchesFilters(e, options) ==
    /\ IsSome(options.eventType) => e.eventType \in Get(options.eventType)
    /\ IsSome(options.actor) => e.actor = Get(options.actor)
    /\ IsSome(options.subject) => e.subject = options.subject
    /\ IsSome(options.certificateId) => e.certificateId = options.certificateId
    /\ IsSome(options.startTime) => e.timestamp >= Get(options.startTime)
    /\ IsSome(options.endTime) => e.timestamp <= Get(options.endTime)

CountIn(seq, e) == Cardinality({k \in 1..Len(seq) : seq[k] = e})

\* C33: a query without pagination returns exactly the cached events that match
\* every filter given (event type, actor, subject, certificate id, start and end
\* time), newest first.
C33_QueryReturnsMatches ==
    (/\ LastIs("queryEvents")
     /\ Get(Get(last).input).limit = None
     /\ Get(Get(last).input).offset = None) =>
        LET options == Get(Get(last).input)
            cache == Get(last).before
            results == Get(last).result
        IN  /\ \A k \in 1..Len(results) : MatchesFilters(results[k], options)
            /\ \A k \in 1..Len(results) : CountIn(cache, results[k]) > 0
            /\ \A k \in 1..Len(cache) :
                   MatchesFilters(cache[k], options) =>
                       CountIn(results, cache[k]) = CountIn(cache, cache[k])
            /\ \A k \in 1..(Len(results) - 1) :
                   results[k].timestamp >= results[k + 1].timestamp

\* C34: the audit log is append-only. A step removes or changes a cached event only
\* if it is a pruneOldEvents whose cutoff lies after the event's timestamp, and a
\* query without options returns every cached event as it was recorded.
C34_AppendOnly ==
    /\ [][\A k \in 1..Len(events) :
              CountIn(events', events[k]) < CountIn(events, events[k]) =>
                  /\ IsSome(last')
                  /\ Get(last').op = "pruneOldEvents"
                  /\ events[k].timestamp < Get(last').arg]_vars
    /\ []((LastIs("queryEvents") /\ Get(Get(last).input) = NoOptions) =>
              \A k \in 1..Len(events) :
                  CountIn(Get(last).result, events[k]) = CountIn(events, events[k]))

\* C35: when revokeCertificate has returned, the propagation queue holds a record
\* for the revoked version (its id, its hash) that is flagged urgent.
C35_RevocationQueuedUrgent ==
    (LastIs("revoke") /\ Get(last).result = "ok") =>
        \E k \in 1..Len(sync.propagationQueue) :
            LET record == sync.records[sync.propagationQueue[k].record]
            IN  /\ record.certificateId = Get(last).id
                /\ record.certificateHash = HashOf(Get(Get(last).new))
                /\ "priority" \in DOMAIN record
                /\ record["priority"] = "urgent"

\* the record with reference ref is the value of an entry of the Map
Queued(ref) ==
    \E k \in 1..Len(sync.propagationQueue) : sync.propagationQueue[k].record = ref

\* C36: while the service is running, a queued record whose external status is
\* failed is taken up again (its status leaves failed) without a call of
\* retryFailed.
C36_FailedIsRetried ==
    \A ref \in 1..MaxQueued :
        (/\ sync.isRunning
         /\ ref <= Len(sync.records)
         /\ Queued(ref)
         /\ sync.records[ref].externalStatus = "failed")
            ~> (\/ ~sync.isRunning
                \/ /\ ref <= Len(sync.records)
                   /\ sync.records[ref].externalStatus # "failed")

\* C38: a certificate id leaves the propagation queue only when the record queued
\* last for it has been propagated (both statuses synced), or when init or shutdown
\* clear the queue; a record queued while an earlier one for the same id is
\* suspended in propagateExternal stays until it has been propagated itself.
C38_QueuedUntilPropagated ==
    [][\A k \in 1..Len(sync.propagationQueue) :
           LET e == sync.propagationQueue[k]
               queuedLast == IF /\ Get(last').op = "queueForPropagation"
                                /\ Get(last').id = e.certificateId
                             THEN Len(sync'.records)
                             ELSE e.record
           IN  (\A j \in 1..Len(sync'.propagationQueue) :
                    sync'.propagationQueue[j].certificateId # e.certificateId) =>
                   \/ Get(last').op \in {"syncInit", "syncShutdown"}
                   \/ /\ sync'.records[queuedLast].internalStatus = "synced"
                      /\ sync'.records[queuedLast].externalStatus = "synced"]_vars

\* C39: from the return of shutdown to the next call of the service, no queue
\* processing runs (no interval callback, no resumed propagateExternal) and the
\* service stores no object.
C39_QuietAfterShutdown ==
    sync.shut =>
        /\ ~LastIs("backgroundSync")
        /\ ~LastIs("getObject")
        /\ ~LastIs("storeVersionedObject")

\* C37: when the store of an instance holds a revoked version of an id, an import
\* of a VC for that id does not make getCertificate(id) return a version that
\* verifyCertificate accepts as valid.
C37_ImportKeepsRevocation ==
    (/\ LastIs("import")
     /\ \E k \in 1..Len(Get(last).before) : Get(last).before[k].status = "revoked") =>
        LET latest == GetCertificate(store[Get(last).inst], Get(last).id)
        IN  ~VerifyCertificate(Get(latest), Get(last).at).valid

\* C40: the certificateId that CAPlan.issueCertificate and issueDeviceCertificate
\* return is the id of the certificate the call stored: getCertificate of the
\* returned id returns that certificate, at version 1.
C40_ReturnedIdIsStoredId ==
    ((LastIs("planIssue") \/ LastIs("planIssueDevice")) /\ LastStored) =>
        /\ Get(last).result.certificateId = Get(Get(last).new).id
        /\ GetCertificate(store[Get(last).inst], Get(last).result.certificateId) =
               Get(last).new
        /\ Get(Get(last).new).version = 1

====
